---- MODULE Spec2Model ----
(***************************************************************************)
(* TicketTool (src/main.py): the ticket store, the in-process              *)
(* configuration cache, the command handlers and the two periodic sweeps.  *)
(*                                                                         *)
(* Every handler is a coroutine: it is cut into one action per await that  *)
(* reads or writes the store or the platform, so that other handlers can   *)
(* run between two of its steps, as on the asyncio event loop.             *)
(*                                                                         *)
(* Time is an integer clock `now`.  timedelta(minutes=m) is m clock units  *)
(* and timedelta(days=d) is d * MinutesPerDay units; MinutesPerDay is      *)
(* scaled down so that a day fits into the explored horizon.  ISO time     *)
(* strings of one format compare like the instants they denote, so the     *)
(* store's string comparison is the integer comparison.                    *)
(***************************************************************************)
EXTENDS Integers, Sequences, FiniteSets, TLC

\* ------------------------------------------------------------------ bounds
MaxTickets == 2
MaxTime == 4
MinutesPerDay == 2
MaxMessages == 4

\* ------------------------------------------------------- platform (Discord)
\* SQL NULL / Python None for an id column; ids start at 1.
NULL == 0
\* SQL NULL for a timestamp column (closed_at before the close).
NoTime == -1

Guilds == {1}
\* Members of the guild: 1 is a customer, 2 holds the support role,
\* 3 holds the trainee role, 4 is an administrator without staff role.
Users == {1, 2, 3, 4}
SupportRoleId == 1
TraineeRoleId == 2
ExistingRoles == {SupportRoleId, TraineeRoleId}
MemberRoles(u) == IF u = 2 THEN {SupportRoleId} ELSE IF u = 3 THEN {TraineeRoleId} ELSE {}
Administrators == {4}
TicketCategoryId == 1
ArchiveCategoryId == 2
ExistingCategories == {TicketCategoryId, ArchiveCategoryId}
\* The bot's own account (message.author.bot).
BotUser == 5
CreateSlots == {1, 2}
ClaimSlots == {1, 2}

\* ------------------------------------------------------------ configuration
Keys == {"ticket_category", "archive_category", "support_role", "trainee_role",
         "max_tickets", "auto_close_minutes", "auto_close_days"}

DEFAULT_CONFIG == [k \in Keys |->
    CASE k = "max_tickets" -> 3
      [] k = "auto_close_minutes" -> 30
      [] k = "auto_close_days" -> 1
      [] OTHER -> 0]

VARIABLES
    now,            \* dt.now()
    tickets,        \* table tickets: sequence of rows, ticket_id = index
    channels,       \* live text channels of the platform: id -> [guild, archived]
    channel_seq,    \* number of channels ever created (ids are never reused)
    server_config,  \* table server_config: guild_id -> settings dict (rows only)
    guild_configs,  \* TicketBot.guild_configs: guild_id -> settings dict
    creating,       \* create_ticket_channel coroutines in flight, one per slot
    message,        \* on_message coroutine in flight
    closing,        \* close_ticket_channel coroutine in flight
    forcing,        \* force_close coroutine in flight
    stale,          \* check_stale_tickets loop task
    inactive,       \* check_inactive_tickets loop task
    claiming,       \* claim coroutines in flight, one per slot
    unclaiming,     \* unclaim coroutine in flight
    requesting,     \* request_close coroutine in flight
    warnings,       \* history: warnings sent per ticket since its last processed user message
    outcome,        \* history: what the handler that last finished a step answered or did
    writing,        \* TicketDatabase.update_config coroutines in flight, one per slot
    welcome,        \* the off-hours decision of a creation's welcome: its inputs and result
    transcript,     \* generate_transcript_file: its inputs and the lines it wrote
    history         \* channel.history(): member messages landed per channel id

\* The slash-command coroutines of claim, unclaim and request_close.
commands == <<claiming, unclaiming, requesting>>

\* State outside the ticket handlers.
side == <<writing, welcome, transcript, history>>

vars == <<now, tickets, channels, channel_seq, server_config, guild_configs,
          creating, message, closing, forcing, stale, inactive, commands, warnings, outcome,
          side>>

\* dict.get(key, default)
DictGet(d, k, dflt) == IF k \in DOMAIN d THEN d[k] ELSE dflt

\* config.get(key, DEFAULT_CONFIG[key]) / config.get(key): the default of a
\* missing id key is None, which is as falsy as 0.
ConfigGet(d, k) == DictGet(d, k, DEFAULT_CONFIG[k])

\* TicketDatabase.get_config(guild_id) or DEFAULT_CONFIG.copy()
LoadConfig(g) ==
    IF g \in DOMAIN server_config /\ DOMAIN server_config[g] # {}
    THEN server_config[g] ELSE DEFAULT_CONFIG

\* TicketBot.get_config(guild_id): the dict it returns ...
get_config(g) == IF g \in DOMAIN guild_configs THEN guild_configs[g] ELSE LoadConfig(g)

\* ... and the cache it leaves behind.
CacheAfterGet(g) ==
    IF g \in DOMAIN guild_configs THEN guild_configs ELSE (g :> LoadConfig(g)) @@ guild_configs

\* TicketDatabase.update_config(guild_id, key, value): the row it writes.
update_config(g, k, v) ==
    LET config == IF g \in DOMAIN server_config THEN server_config[g] ELSE << >>
    IN  (g :> ((k :> v) @@ config)) @@ server_config

\* ------------------------------------------------------------- ticket store
\* Mutant: the row is inserted with the epoch as its last user response.
NewTicket_epoch(g, ch, u, t) ==
    [guild_id |-> g, channel_id |-> ch, creator_id |-> u, claimed_by |-> NULL,
     closed_at |-> NoTime, status |-> "open", last_user_response |-> 0,
     close_requested |-> 0, inactivity_warning_sent |-> 0]

\* INSERT INTO tickets (...) VALUES (guild, channel, creator, now, 'open', reason,
\* None, now, 0, 0): closed_at is left NULL.
NewTicket(g, ch, u, t) ==
    [guild_id |-> g, channel_id |-> ch, creator_id |-> u, claimed_by |-> NULL,
     closed_at |-> NoTime, status |-> "open", last_user_response |-> t,
     close_requested |-> 0, inactivity_warning_sent |-> 0]

\* Mutant: the new row takes the first id and the older rows move up.
create_ticket_first(T, g, ch, u, t) == <<NewTicket(g, ch, u, t)>> \o T

\* TicketDatabase.create_ticket
create_ticket(T, g, ch, u, t) == Append(T, NewTicket(g, ch, u, t))

\* TicketDatabase.get_last_ticket_id: MAX(ticket_id) or 0
get_last_ticket_id(T) == Len(T)

\* Mutant: the selection of the creator's open tickets comes back empty.
get_user_tickets_none(T, g, u) == {}

\* TicketDatabase.get_user_tickets: the open rows of the creator in the guild
get_user_tickets(T, g, u) ==
    {i \in DOMAIN T : T[i].guild_id = g /\ T[i].creator_id = u /\ T[i].status = "open"}

\* TicketDatabase.get_ticket_by_channel: fetchone() of the rows of the channel, or None
get_ticket_by_channel(T, ch) ==
    LET rows == {i \in DOMAIN T : T[i].channel_id = ch}
    IN  IF rows = {} THEN NULL ELSE CHOOSE i \in rows : \A j \in rows : i <= j

\* Mutant: the reply reopens the ticket (no status gate, status written back to open).
update_last_response_reopens(T, ch, t) ==
    [i \in DOMAIN T |->
        IF T[i].channel_id = ch
        THEN [T[i] EXCEPT !.status = "open", !.last_user_response = t,
                          !.inactivity_warning_sent = 0]
        ELSE T[i]]

\* Mutant: the reply advances the timestamp and forgets to clear the warning flag.
update_last_response_keeps_flag(T, ch, t) ==
    [i \in DOMAIN T |->
        IF T[i].channel_id = ch /\ T[i].status = "open"
        THEN [T[i] EXCEPT !.last_user_response = t]
        ELSE T[i]]

\* TicketDatabase.update_last_response:
\* SET last_user_response = ?, inactivity_warning_sent = 0 WHERE channel_id = ? AND status = 'open'
update_last_response(T, ch, t) ==
    [i \in DOMAIN T |->
        IF T[i].channel_id = ch /\ T[i].status = "open"
        THEN [T[i] EXCEPT !.last_user_response = t, !.inactivity_warning_sent = 0]
        ELSE T[i]]

\* Mutant: the mark is written whatever the status of the ticket.
mark_inactivity_warning_sent_any_status(T, ch) ==
    [i \in DOMAIN T |->
        IF T[i].channel_id = ch
        THEN [T[i] EXCEPT !.inactivity_warning_sent = 1]
        ELSE T[i]]

\* TicketDatabase.mark_inactivity_warning_sent:
\* SET inactivity_warning_sent = 1 WHERE channel_id = ? AND status = 'open'
mark_inactivity_warning_sent(T, ch) ==
    [i \in DOMAIN T |->
        IF T[i].channel_id = ch /\ T[i].status = "open"
        THEN [T[i] EXCEPT !.inactivity_warning_sent = 1]
        ELSE T[i]]

\* Mutant: the request is acknowledged and the flag is not written.
request_close_forgets(T, ch) == T

\* TicketDatabase.request_close:
\* SET close_requested = 1 WHERE channel_id = ? AND status = 'open'
request_close(T, ch) ==
    [i \in DOMAIN T |->
        IF T[i].channel_id = ch /\ T[i].status = "open"
        THEN [T[i] EXCEPT !.close_requested = 1]
        ELSE T[i]]

\* TicketDatabase.claim_ticket:
\* SET claimed_by = ? WHERE channel_id = ? AND status = 'open'
claim_ticket(T, ch, claimed_by) ==
    [i \in DOMAIN T |->
        IF T[i].channel_id = ch /\ T[i].status = "open"
        THEN [T[i] EXCEPT !.claimed_by = claimed_by]
        ELSE T[i]]

\* Mutant: the unclaim also resets the warning flag of the ticket.
unclaim_ticket_resets_warning(T, ch) ==
    [i \in DOMAIN T |->
        IF T[i].channel_id = ch /\ T[i].status = "open"
        THEN [T[i] EXCEPT !.claimed_by = NULL, !.inactivity_warning_sent = 0]
        ELSE T[i]]

\* TicketDatabase.unclaim_ticket:
\* SET claimed_by = NULL WHERE channel_id = ? AND status = 'open'
unclaim_ticket(T, ch) ==
    [i \in DOMAIN T |->
        IF T[i].channel_id = ch /\ T[i].status = "open"
        THEN [T[i] EXCEPT !.claimed_by = NULL]
        ELSE T[i]]

\* Mutant: the close sets the status and leaves closed_at as it was.
close_ticket_without_time(T, ch, t) ==
    [i \in DOMAIN T |->
        IF T[i].channel_id = ch
        THEN [T[i] EXCEPT !.status = "closed"]
        ELSE T[i]]

\* Mutant: the close withdraws the close request.
close_ticket_clears_request(T, ch, t) ==
    [i \in DOMAIN T |->
        IF T[i].channel_id = ch
        THEN [T[i] EXCEPT !.status = "closed", !.closed_at = t, !.close_requested = 0]
        ELSE T[i]]

\* TicketDatabase.close_ticket: SET status = 'closed', closed_at = ? WHERE channel_id = ?
close_ticket(T, ch, t) ==
    [i \in DOMAIN T |->
        IF T[i].channel_id = ch
        THEN [T[i] EXCEPT !.status = "closed", !.closed_at = t]
        ELSE T[i]]

\* Mutant: the UPDATE sets the status and forgets closed_at.
force_close_update_status_only(T, id, t) ==
    [i \in DOMAIN T |->
        IF i = id
        THEN [T[i] EXCEPT !.status = "closed"]
        ELSE T[i]]

\* force_close: UPDATE tickets SET status = "closed", closed_at = ? WHERE ticket_id = ?
force_close_update(T, id, t) ==
    [i \in DOMAIN T |->
        IF i = id
        THEN [T[i] EXCEPT !.status = "closed", !.closed_at = t]
        ELSE T[i]]

\* Mutant: the SELECT finds the ticket whatever its status.
force_close_select_any_status(T, id) == id \in DOMAIN T

\* force_close: SELECT * FROM tickets WHERE ticket_id = ? AND status = "open"
force_close_select(T, id) == id \in DOMAIN T /\ T[id].status = "open"

\* The rows of a SELECT in rowid order, as the list of their ticket ids.
Rows(T, Test(_)) == SelectSeq([i \in 1 .. Len(T) |-> i], Test)

\* Mutant: the selection forgets the condition inactivity_warning_sent = 0.
get_inactive_tickets_any_flag(T, g, minutes, t) ==
    LET cutoff_time == t - minutes
        Test(i) == /\ T[i].guild_id = g
                   /\ T[i].status = "open"
                   /\ T[i].last_user_response < cutoff_time
    IN  Rows(T, Test)

\* TicketDatabase.get_inactive_tickets at time t: cutoff = now - timedelta(minutes=minutes)
get_inactive_tickets(T, g, minutes, t) ==
    LET cutoff_time == t - minutes
        Test(i) == /\ T[i].guild_id = g
                   /\ T[i].status = "open"
                   /\ T[i].last_user_response < cutoff_time
                   /\ T[i].inactivity_warning_sent = 0
    IN  Rows(T, Test)

\* TicketDatabase.get_stale_tickets at time t: cutoff = now - timedelta(days=days)
get_stale_tickets(T, g, days, t) ==
    LET cutoff_time == t - days * MinutesPerDay
        Test(i) == /\ T[i].guild_id = g
                   /\ T[i].status = "open"
                   /\ T[i].last_user_response < cutoff_time
    IN  Rows(T, Test)

\* ------------------------------------------------------------- permissions
\* Mutant: administrators pass the staff check.
has_permission_or_admin(config, u) ==
    \/ ConfigGet(config, "support_role") \in MemberRoles(u)
    \/ ConfigGet(config, "trainee_role") \in MemberRoles(u)
    \/ u \in Administrators

\* Mutant: every member passes the staff check.
has_permission_any_member(config, u) == u \in Users

\* close_ticket_channel / claim / ...: has_permission, the support or trainee role
\* named by the configuration, resolved in the guild and held by the member.
has_permission(config, u) ==
    LET support_role_id == ConfigGet(config, "support_role")
        trainee_role_id == ConfigGet(config, "trainee_role")
    IN  \/ support_role_id # 0 /\ support_role_id \in ExistingRoles
                               /\ support_role_id \in MemberRoles(u)
        \/ trainee_role_id # 0 /\ trainee_role_id \in ExistingRoles
                               /\ trainee_role_id \in MemberRoles(u)

\* interaction.user.guild_permissions.administrator
administrator(u) == u \in Administrators

\* archive_category_id truthy and guild.get_channel(archive_category_id) found
ArchiveConfigured(config) ==
    LET archive_category_id == ConfigGet(config, "archive_category")
    IN  archive_category_id # 0 /\ archive_category_id \in ExistingCategories

\* channel.edit(category=archive_category, ...): the channel moves to the archive
Archive(ch) == [channels EXCEPT ![ch].archived = TRUE]

\* channel.delete()
Delete(ch) == [c \in DOMAIN channels \ {ch} |-> channels[c]]

\* ---------------------------------------------------------------- Init
Idle == [pc |-> "idle"]

\* No configuration write in flight, nothing welcomed or transcribed, no message landed.
WriteSlots == {1, 2}
SideIdle ==
    /\ writing = [w \in WriteSlots |-> Idle]
    /\ welcome = Idle
    /\ transcript = Idle
    /\ history = [c \in 1 .. MaxTickets |-> 0]

Boot ==
    /\ now = 0
    /\ tickets = << >>
    /\ channels = << >>
    /\ channel_seq = 0
    /\ server_config = << >>
    /\ guild_configs = << >>
    /\ creating = [s \in CreateSlots |-> Idle]
    /\ message = Idle
    /\ closing = Idle
    /\ forcing = Idle
    /\ stale = Idle
    /\ inactive = Idle
    /\ claiming = [s \in ClaimSlots |-> Idle]
    /\ unclaiming = Idle
    /\ requesting = Idle
    /\ warnings = << >>
    /\ outcome = [op |-> "none", result |-> "none"]

Init == Boot /\ SideIdle

\* ------------------------------------------------------------------ clock
Tick ==
    /\ now < MaxTime
    /\ now' = now + 1
    /\ UNCHANGED <<tickets, channels, channel_seq, server_config, guild_configs,
                   creating, message, closing, forcing, stale, inactive, warnings, outcome, commands>>
    /\ UNCHANGED side

\* --------------------------------------------------- configuration writes
\* CategoryModal / RoleModal / NumberModal.on_submit: validate, then update_config.
ValidValues(k) ==
    CASE k = "ticket_category" -> {TicketCategoryId}
      [] k = "archive_category" -> {ArchiveCategoryId}
      [] k = "support_role" -> {SupportRoleId}
      [] k = "trainee_role" -> {TraineeRoleId}
      [] k = "max_tickets" -> 1 .. 2
      [] k = "auto_close_minutes" -> 1 .. 2
      [] k = "auto_close_days" -> 1 .. 2

ConfigWrite(g, k, v) ==
    /\ v \in ValidValues(k)
    /\ server_config' = update_config(g, k, v)
    /\ outcome' = [op |-> "setup", result |-> "set"]
    /\ UNCHANGED <<now, tickets, channels, channel_seq, guild_configs,
                   creating, message, closing, forcing, stale, inactive, warnings, commands>>
    /\ UNCHANGED side

\* view_settings: config = await bot.get_config(interaction.guild.id)
ViewSettings(g) ==
    /\ guild_configs' = CacheAfterGet(g)
    /\ outcome' = [op |-> "view_settings", result |-> "shown"]
    /\ UNCHANGED <<now, tickets, channels, channel_seq, server_config,
                   creating, message, closing, forcing, stale, inactive, warnings, commands>>
    /\ UNCHANGED side

\* ------------------------------------------------- create_ticket_channel
InFlight == Cardinality({s \in CreateSlots : creating[s].pc # "idle"})

\* get_config, get_user_tickets, the limit check and the category checks.
CreateCheck(s, g, u) ==
    /\ creating[s].pc = "idle"
    /\ Len(tickets) + InFlight < MaxTickets
    /\ guild_configs' = CacheAfterGet(g)
    /\ LET config == get_config(g)
           user_tickets == get_user_tickets(tickets, g, u)
           category_id == ConfigGet(config, "ticket_category")
       IN  IF Cardinality(user_tickets) >= ConfigGet(config, "max_tickets")
           THEN /\ outcome' = [op |-> "create", result |-> "LimitExceeded"]
                /\ UNCHANGED creating
           ELSE IF category_id = 0 \/ category_id \notin ExistingCategories
           THEN /\ outcome' = [op |-> "create", result |-> "NotConfigured"]
                /\ UNCHANGED creating
           ELSE /\ creating' = [creating EXCEPT ![s] =
                        [pc |-> "checked", guild |-> g, user |-> u]]
                /\ UNCHANGED outcome
    /\ UNCHANGED <<now, tickets, channels, channel_seq, server_config,
                   message, closing, forcing, stale, inactive, warnings, commands>>
    /\ UNCHANGED side

\* last_ticket_id = await db.get_last_ticket_id(); ticket_id = last_ticket_id + 1
CreateName(s) ==
    /\ creating[s].pc = "checked"
    /\ creating' = [creating EXCEPT ![s] =
           [pc |-> "named", guild |-> creating[s].guild, user |-> creating[s].user,
            ticket_id |-> get_last_ticket_id(tickets) + 1]]
    /\ UNCHANGED <<now, tickets, channels, channel_seq, server_config, guild_configs,
                   message, closing, forcing, stale, inactive, warnings, outcome, commands>>
    /\ UNCHANGED side

\* ticket_channel = await category.create_text_channel(...)
CreateChannel(s) ==
    /\ creating[s].pc = "named"
    /\ channel_seq' = channel_seq + 1
    /\ channels' = (channel_seq' :> [guild |-> creating[s].guild, archived |-> FALSE]) @@ channels
    /\ creating' = [creating EXCEPT ![s] =
           [pc |-> "channel", guild |-> creating[s].guild, user |-> creating[s].user,
            ticket_id |-> creating[s].ticket_id, channel |-> channel_seq']]
    /\ UNCHANGED <<now, tickets, server_config, guild_configs,
                   message, closing, forcing, stale, inactive, warnings, outcome, commands>>
    /\ UNCHANGED side

\* await db.create_ticket(guild.id, ticket_channel.id, user.id, reason); the welcome
\* message and the confirmation name the ticket_id computed by CreateName.
CreateInsert(s) ==
    /\ creating[s].pc = "channel"
    /\ tickets' = create_ticket(tickets, creating[s].guild, creating[s].channel,
                                creating[s].user, now)
    /\ warnings' = Append(warnings, 0)
    /\ creating' = [creating EXCEPT ![s] = Idle]
    /\ outcome' = [op |-> "create", result |-> "created"]
    /\ UNCHANGED <<now, channels, channel_seq, server_config, guild_configs,
                   message, closing, forcing, stale, inactive, commands>>
    /\ UNCHANGED side

\* ------------------------------------------------------------- on_message
\* if message.author.bot: return; ticket = await db.get_ticket_by_channel(...)
MessageRead(u, ch) ==
    /\ message.pc = "idle"
    /\ ch \in DOMAIN channels
    /\ LET ticket == get_ticket_by_channel(tickets, ch)
       IN  IF u = BotUser
           THEN /\ outcome' = [op |-> "on_message", result |-> "bot"]
                /\ UNCHANGED message
           ELSE IF ticket # NULL /\ tickets[ticket].status = "open"
           THEN /\ message' = [pc |-> "read", channel |-> ch, author |-> u]
                /\ UNCHANGED outcome
           ELSE /\ outcome' = [op |-> "on_message", result |-> "ignored"]
                /\ UNCHANGED message
    /\ UNCHANGED <<now, tickets, channels, channel_seq, server_config, guild_configs,
                   creating, closing, forcing, stale, inactive, warnings, commands>>
    /\ UNCHANGED side

\* The rows an UPDATE ... WHERE channel_id = ? AND status = 'open' matches.
OpenRows(ch) == {i \in DOMAIN tickets : tickets[i].channel_id = ch /\ tickets[i].status = "open"}

\* await db.update_last_response(message.channel.id)
MessageUpdate ==
    /\ message.pc = "read"
    /\ tickets' = update_last_response(tickets, message.channel, now)
    /\ warnings' = [i \in DOMAIN warnings |->
                        IF i \in OpenRows(message.channel) THEN 0 ELSE warnings[i]]
    /\ outcome' = [op |-> "on_message",
                   result |-> IF OpenRows(message.channel) = {} THEN "no row"
                              ELSE IF \E i \in OpenRows(message.channel) :
                                         tickets[i].inactivity_warning_sent = 1
                              THEN "warning cleared" ELSE "updated"]
    /\ message' = Idle
    /\ UNCHANGED <<now, channels, channel_seq, server_config, guild_configs,
                   creating, closing, forcing, stale, inactive, commands>>
    /\ UNCHANGED side

\* ---------------------------------------------------- close_ticket_channel
\* The permission check and ticket = await db.get_ticket_by_channel(channel.id).
CloseRead(u, ch) ==
    /\ closing.pc = "idle"
    /\ ch \in DOMAIN channels
    /\ guild_configs' = CacheAfterGet(channels[ch].guild)
    /\ LET config == get_config(channels[ch].guild)
           ticket == get_ticket_by_channel(tickets, ch)
       IN  IF ~has_permission(config, u) /\ ~administrator(u)
           THEN /\ outcome' = [op |-> "close", result |-> "PermissionDenied"]
                /\ UNCHANGED closing
           ELSE IF ticket = NULL
           THEN /\ outcome' = [op |-> "close", result |-> "NotFound"]
                /\ UNCHANGED closing
           ELSE /\ closing' = [pc |-> "read", channel |-> ch, ticket |-> ticket, author |-> u]
                /\ UNCHANGED outcome
    /\ UNCHANGED <<now, tickets, channels, channel_seq, server_config,
                   creating, message, forcing, stale, inactive, warnings, commands>>
    /\ UNCHANGED side

\* await db.close_ticket(interaction.channel.id, interaction.user.id)
CloseCommit ==
    /\ closing.pc = "read"
    /\ tickets' = close_ticket(tickets, closing.channel, now)
    /\ closing' = [closing EXCEPT !.pc = "closed"]
    /\ outcome' = [op |-> "close", result |-> "committed"]
    /\ UNCHANGED <<now, channels, channel_seq, server_config, guild_configs,
                   creating, message, forcing, stale, inactive, warnings, commands>>
    /\ UNCHANGED side

\* Mutant: a failure after the commit rolls the close back.
CloseFinish_rollback ==
    /\ closing.pc = "closed"
    /\ IF closing.channel \notin DOMAIN channels
       THEN /\ closing' = Idle
            /\ outcome' = [op |-> "close", result |-> "raised"]
            /\ tickets' = [tickets EXCEPT ![closing.ticket].status = "open",
                                          ![closing.ticket].closed_at = NoTime]
            /\ UNCHANGED channels
       ELSE IF ArchiveConfigured(get_config(channels[closing.channel].guild))
       THEN /\ channels' = Archive(closing.channel)
            /\ closing' = Idle
            /\ outcome' = [op |-> "close", result |-> "archived"]
            /\ UNCHANGED tickets
       ELSE /\ closing' = [pc |-> "sleep", channel |-> closing.channel,
                            ticket |-> closing.ticket, author |-> closing.author,
                            transcribed |-> history[closing.channel]]
            /\ UNCHANGED <<tickets, channels, outcome>>
    /\ UNCHANGED <<now, channel_seq, server_config, guild_configs,
                   creating, message, forcing, stale, inactive, warnings, commands>>
    /\ UNCHANGED side

\* The transcript (generate_transcript_file reads channel.history() here), then the
\* archive branch (channel.edit), or else the notice and asyncio.sleep(10).  A channel
\* deleted meanwhile makes the platform call raise.
CloseFinish ==
    /\ closing.pc = "closed"
    /\ IF closing.channel \notin DOMAIN channels
       THEN /\ closing' = Idle
            /\ outcome' = [op |-> "close", result |-> "raised"]
            /\ UNCHANGED channels
       ELSE IF ArchiveConfigured(get_config(channels[closing.channel].guild))
       THEN /\ channels' = Archive(closing.channel)
            /\ closing' = Idle
            /\ outcome' = [op |-> "close", result |-> "archived"]
       ELSE /\ closing' = [pc |-> "sleep", channel |-> closing.channel,
                            ticket |-> closing.ticket, author |-> closing.author,
                            transcribed |-> history[closing.channel]]
            /\ UNCHANGED <<channels, outcome>>
    /\ UNCHANGED <<now, tickets, channel_seq, server_config, guild_configs,
                   creating, message, forcing, stale, inactive, warnings, commands>>
    /\ UNCHANGED side

\* await asyncio.sleep(10); await interaction.channel.delete()
CloseDelete ==
    /\ closing.pc = "sleep"
    /\ closing' = Idle
    /\ IF closing.channel \in DOMAIN channels
       THEN /\ channels' = Delete(closing.channel)
            /\ outcome' = [op |-> "close", result |-> "deleted"]
       ELSE /\ outcome' = [op |-> "close", result |-> "raised"]
            /\ UNCHANGED channels
    /\ UNCHANGED <<now, tickets, channel_seq, server_config, guild_configs,
                   creating, message, forcing, stale, inactive, warnings, commands>>
    /\ UNCHANGED side

\* -------------------------------------------------------------------- claim
\* The staff check, ticket = await db.get_ticket_by_channel(channel.id) and the
\* test of ticket.get('claimed_by'); the claimant is a member of the guild, so
\* fetch_member finds it.
ClaimRead(s, u, ch) ==
    /\ claiming[s].pc = "idle"
    /\ ch \in DOMAIN channels
    /\ guild_configs' = CacheAfterGet(channels[ch].guild)
    /\ LET config == get_config(channels[ch].guild)
           ticket == get_ticket_by_channel(tickets, ch)
       IN  IF ~has_permission(config, u)
           THEN /\ outcome' = [op |-> "claim", result |-> "PermissionDenied"]
                /\ UNCHANGED claiming
           ELSE IF ticket = NULL
           THEN /\ outcome' = [op |-> "claim", result |-> "NotFound"]
                /\ UNCHANGED claiming
           ELSE IF tickets[ticket].claimed_by # NULL
           THEN /\ outcome' = [op |-> "claim", result |-> "AlreadyClaimed"]
                /\ UNCHANGED claiming
           ELSE /\ claiming' = [claiming EXCEPT ![s] =
                        [pc |-> "read", channel |-> ch, ticket |-> ticket, author |-> u]]
                /\ UNCHANGED outcome
    /\ UNCHANGED <<now, tickets, channels, channel_seq, server_config,
                   creating, message, closing, forcing, stale, inactive,
                   unclaiming, requesting, warnings>>
    /\ UNCHANGED side

\* await db.claim_ticket(channel.id, user.id); the claim notification to the channel
\* and the confirmation.  A channel deleted meanwhile makes channel.send raise.
ClaimWrite(s) ==
    /\ claiming[s].pc = "read"
    /\ tickets' = claim_ticket(tickets, claiming[s].channel, claiming[s].author)
    /\ claiming' = [claiming EXCEPT ![s] = Idle]
    /\ outcome' = IF claiming[s].channel \in DOMAIN channels
                  THEN [op |-> "claim", result |-> "claimed", author |-> claiming[s].author,
                        ticket |-> claiming[s].ticket, before |-> tickets[claiming[s].ticket]]
                  ELSE [op |-> "claim", result |-> "raised"]
    /\ UNCHANGED <<now, channels, channel_seq, server_config, guild_configs,
                   creating, message, closing, forcing, stale, inactive,
                   unclaiming, requesting, warnings>>
    /\ UNCHANGED side

\* ------------------------------------------------------------------ unclaim
\* The staff check, the ticket of the channel, the test of claimed_by and the test
\* of the claimant or administrator.
UnclaimRead(u, ch) ==
    /\ unclaiming.pc = "idle"
    /\ ch \in DOMAIN channels
    /\ guild_configs' = CacheAfterGet(channels[ch].guild)
    /\ LET config == get_config(channels[ch].guild)
           ticket == get_ticket_by_channel(tickets, ch)
       IN  IF ~has_permission(config, u)
           THEN /\ outcome' = [op |-> "unclaim", result |-> "PermissionDenied"]
                /\ UNCHANGED unclaiming
           ELSE IF ticket = NULL
           THEN /\ outcome' = [op |-> "unclaim", result |-> "NotFound"]
                /\ UNCHANGED unclaiming
           ELSE IF tickets[ticket].claimed_by = NULL
           THEN /\ outcome' = [op |-> "unclaim", result |-> "NotClaimed"]
                /\ UNCHANGED unclaiming
           ELSE IF tickets[ticket].claimed_by # u /\ ~administrator(u)
           THEN /\ outcome' = [op |-> "unclaim", result |-> "NotOwner"]
                /\ UNCHANGED unclaiming
           ELSE /\ unclaiming' = [pc |-> "read", channel |-> ch, ticket |-> ticket, author |-> u]
                /\ UNCHANGED outcome
    /\ UNCHANGED <<now, tickets, channels, channel_seq, server_config,
                   creating, message, closing, forcing, stale, inactive,
                   claiming, requesting, warnings>>
    /\ UNCHANGED side

\* await db.unclaim_ticket(channel.id); the notification and the confirmation.
UnclaimWrite ==
    /\ unclaiming.pc = "read"
    /\ tickets' = unclaim_ticket(tickets, unclaiming.channel)
    /\ unclaiming' = Idle
    /\ outcome' = IF unclaiming.channel \in DOMAIN channels
                  THEN [op |-> "unclaim", result |-> "unclaimed", author |-> unclaiming.author,
                        ticket |-> unclaiming.ticket, before |-> tickets[unclaiming.ticket]]
                  ELSE [op |-> "unclaim", result |-> "raised"]
    /\ UNCHANGED <<now, channels, channel_seq, server_config, guild_configs,
                   creating, message, closing, forcing, stale, inactive,
                   claiming, requesting, warnings>>
    /\ UNCHANGED side

\* ------------------------------------------------------------ request_close
\* The ticket of the channel, the test of the creator and the test of close_requested.
RequestRead(u, ch) ==
    /\ requesting.pc = "idle"
    /\ ch \in DOMAIN channels
    /\ LET ticket == get_ticket_by_channel(tickets, ch)
       IN  IF ticket = NULL
           THEN /\ outcome' = [op |-> "request_close", result |-> "NotFound"]
                /\ UNCHANGED requesting
           ELSE IF tickets[ticket].creator_id # u
           THEN /\ outcome' = [op |-> "request_close", result |-> "NotCreator"]
                /\ UNCHANGED requesting
           ELSE IF tickets[ticket].close_requested = 1
           THEN /\ outcome' = [op |-> "request_close", result |-> "AlreadyRequested"]
                /\ UNCHANGED requesting
           ELSE /\ requesting' = [pc |-> "read", channel |-> ch, ticket |-> ticket, author |-> u]
                /\ UNCHANGED outcome
    /\ UNCHANGED <<now, tickets, channels, channel_seq, server_config, guild_configs,
                   creating, message, closing, forcing, stale, inactive,
                   claiming, unclaiming, warnings>>
    /\ UNCHANGED side

\* await db.request_close(channel.id); the notice to the staff in the channel and
\* the confirmation to the user.
RequestWrite ==
    /\ requesting.pc = "read"
    /\ tickets' = request_close(tickets, requesting.channel)
    /\ requesting' = Idle
    /\ outcome' = IF requesting.channel \in DOMAIN channels
                  THEN [op |-> "request_close", result |-> "staff notified"]
                  ELSE [op |-> "request_close", result |-> "raised"]
    /\ UNCHANGED <<now, channels, channel_seq, server_config, guild_configs,
                   creating, message, closing, forcing, stale, inactive,
                   claiming, unclaiming, warnings>>
    /\ UNCHANGED side

\* -------------------------------------------------------------- force_close
\* The administrator check and the SELECT of the open ticket with that id.
ForceSelect(u, g, id) ==
    /\ forcing.pc = "idle"
    /\ IF ~administrator(u)
       THEN /\ outcome' = [op |-> "force_close", result |-> "PermissionDenied"]
            /\ UNCHANGED forcing
       ELSE IF ~force_close_select(tickets, id)
       THEN /\ outcome' = [op |-> "force_close", result |-> "NotFound"]
            /\ UNCHANGED forcing
       ELSE /\ forcing' = [pc |-> "found", guild |-> g, ticket |-> id,
                           channel |-> tickets[id].channel_id, author |-> u]
            /\ UNCHANGED outcome
    /\ UNCHANGED <<now, tickets, channels, channel_seq, server_config, guild_configs,
                   creating, message, closing, stale, inactive, warnings, commands>>
    /\ UNCHANGED side

\* The UPDATE by ticket_id and the commit; channel = guild.get_channel(ticket['channel_id']);
\* if channel: the notice and the transcript, generated from channel.history().
ForceCommit ==
    /\ forcing.pc = "found"
    /\ tickets' = force_close_update(tickets, forcing.ticket, now)
    /\ IF forcing.channel \in DOMAIN channels /\ channels[forcing.channel].guild = forcing.guild
       THEN /\ forcing' = [pc |-> "sleep", guild |-> forcing.guild,
                            ticket |-> forcing.ticket, channel |-> forcing.channel,
                            author |-> forcing.author,
                            transcribed |-> history[forcing.channel]]
            /\ outcome' = [op |-> "force_close", result |-> "committed"]
       ELSE /\ forcing' = Idle
            /\ outcome' = [op |-> "force_close", result |-> "closed, no channel"]
    /\ UNCHANGED <<now, channels, channel_seq, server_config, guild_configs,
                   creating, message, closing, stale, inactive, warnings, commands>>
    /\ UNCHANGED side

\* await asyncio.sleep(10); config = await bot.get_config(guild.id); archive or delete.
ForceFinish ==
    /\ forcing.pc = "sleep"
    /\ forcing' = Idle
    /\ guild_configs' = CacheAfterGet(forcing.guild)
    /\ IF forcing.channel \notin DOMAIN channels
       THEN /\ outcome' = [op |-> "force_close", result |-> "raised"]
            /\ UNCHANGED channels
       ELSE IF ArchiveConfigured(get_config(forcing.guild))
       THEN /\ channels' = Archive(forcing.channel)
            /\ outcome' = [op |-> "force_close", result |-> "archived"]
       ELSE /\ channels' = Delete(forcing.channel)
            /\ outcome' = [op |-> "force_close", result |-> "deleted"]
    /\ UNCHANGED <<now, tickets, channel_seq, server_config,
                   creating, message, closing, stale, inactive, warnings, commands>>
    /\ UNCHANGED side

\* ------------------------------------------------------ check_stale_tickets
\* The loop's record once the head of its ticket list is done.
Advance(loop) ==
    IF Len(loop.list) > 1
    THEN [x \in DOMAIN loop \ {"transcribed"} |->
             IF x = "pc" THEN "tickets"
             ELSE IF x = "list" THEN Tail(loop.list) ELSE loop[x]]
    ELSE [pc |-> "guilds", todo |-> loop.todo, used |-> loop.used]

\* `for guild_id in bot.guild_configs` iterates the dict itself.  Each time the loop
\* comes back for the next key (not when it takes the first one, which follows the
\* creation of the iterator without an await), a dict whose size differs from the
\* size at the start of the tick raises RuntimeError, which ends the loop task.
Changed(loop) ==
    /\ Cardinality(loop.todo) # loop.used
    /\ Cardinality(DOMAIN guild_configs) # loop.used

\* A tick of the loop begins: for guild_id in bot.guild_configs
StaleStart ==
    /\ stale.pc = "idle"
    /\ DOMAIN guild_configs # {}
    /\ stale' = [pc |-> "guilds", todo |-> DOMAIN guild_configs,
                       used |-> Cardinality(DOMAIN guild_configs)]
    /\ UNCHANGED <<now, tickets, channels, channel_seq, server_config, guild_configs,
                   creating, message, closing, forcing, inactive, warnings, outcome, commands>>
    /\ UNCHANGED side

\* config = await bot.get_config(guild_id); stale_tickets = await db.get_stale_tickets(...)
StaleSelect ==
    /\ stale.pc = "guilds"
    /\ IF Changed(stale)
       THEN stale' = [pc |-> "failed"]
       ELSE IF stale.todo = {}
       THEN stale' = Idle
       ELSE \E g \in stale.todo :
              LET config == get_config(g)
                  auto_close_days == ConfigGet(config, "auto_close_days")
                  stale_tickets == get_stale_tickets(tickets, g, auto_close_days, now)
              IN  stale' = IF stale_tickets = << >>
                           THEN [pc |-> "guilds", todo |-> stale.todo \ {g}, used |-> stale.used]
                           ELSE [pc |-> "tickets", todo |-> stale.todo \ {g}, used |-> stale.used,
                                 guild |-> g,
                                 days |-> auto_close_days, list |-> stale_tickets]
    /\ outcome' = IF stale'.pc = "failed" THEN [op |-> "stale", result |-> "raised"]
                  ELSE IF stale'.pc = "tickets" THEN [op |-> "stale", result |-> "selected"]
                  ELSE [op |-> "stale", result |-> "nothing selected"]
    /\ UNCHANGED <<now, tickets, channels, channel_seq, server_config, guild_configs,
                   creating, message, closing, forcing, inactive, warnings, commands>>
    /\ UNCHANGED side

\* channel = guild.get_channel(ticket['channel_id']); if channel:
\*     await db.close_ticket(ticket['channel_id'], bot.user.id)
\* then the notice and the transcript, generated from channel.history() before the sleep.
StaleClose ==
    /\ stale.pc = "tickets"
    /\ LET ticket == Head(stale.list)
           channel == tickets[ticket].channel_id
       IN  IF channel \notin DOMAIN channels
           THEN /\ stale' = Advance(stale)
                /\ UNCHANGED <<tickets, outcome>>
           ELSE /\ tickets' = close_ticket(tickets, channel, now)
                /\ stale' = [pc |-> "sleep", todo |-> stale.todo, used |-> stale.used,
                             guild |-> stale.guild,
                             days |-> stale.days, list |-> stale.list,
                             transcribed |-> history[channel]]
                /\ outcome' = [op |-> "stale", result |-> "committed"]
    /\ UNCHANGED <<now, channels, channel_seq, server_config, guild_configs,
                   creating, message, closing, forcing, inactive, warnings, commands>>
    /\ UNCHANGED side

\* The notice, the transcript, asyncio.sleep(10), then archive or delete.  A channel
\* deleted meanwhile makes the platform call raise, which ends the loop task.
StaleFinish ==
    /\ stale.pc = "sleep"
    /\ LET channel == tickets[Head(stale.list)].channel_id
       IN  IF channel \notin DOMAIN channels
           THEN /\ stale' = [pc |-> "failed"]
                /\ outcome' = [op |-> "stale", result |-> "raised"]
                /\ UNCHANGED channels
           ELSE IF ArchiveConfigured(get_config(stale.guild))
           THEN /\ channels' = Archive(channel)
                /\ stale' = Advance(stale)
                /\ outcome' = [op |-> "stale", result |-> "archived"]
           ELSE /\ channels' = Delete(channel)
                /\ stale' = Advance(stale)
                /\ outcome' = [op |-> "stale", result |-> "deleted"]
    /\ UNCHANGED <<now, tickets, channel_seq, server_config, guild_configs,
                   creating, message, closing, forcing, inactive, warnings, commands>>
    /\ UNCHANGED side

\* --------------------------------------------------- check_inactive_tickets
InactiveStart ==
    /\ inactive.pc = "idle"
    /\ DOMAIN guild_configs # {}
    /\ inactive' = [pc |-> "guilds", todo |-> DOMAIN guild_configs,
                          used |-> Cardinality(DOMAIN guild_configs)]
    /\ UNCHANGED <<now, tickets, channels, channel_seq, server_config, guild_configs,
                   creating, message, closing, forcing, stale, warnings, outcome, commands>>
    /\ UNCHANGED side

\* config = await bot.get_config(guild_id); inactive_tickets = await db.get_inactive_tickets(...)
InactiveSelect ==
    /\ inactive.pc = "guilds"
    /\ IF Changed(inactive)
       THEN inactive' = [pc |-> "failed"]
       ELSE IF inactive.todo = {}
       THEN inactive' = Idle
       ELSE \E g \in inactive.todo :
              LET config == get_config(g)
                  auto_close_minutes == ConfigGet(config, "auto_close_minutes")
                  inactive_tickets == get_inactive_tickets(tickets, g, auto_close_minutes, now)
              IN  inactive' = IF inactive_tickets = << >>
                              THEN [pc |-> "guilds", todo |-> inactive.todo \ {g}, used |-> inactive.used]
                              ELSE [pc |-> "tickets", todo |-> inactive.todo \ {g}, used |-> inactive.used,
                                 guild |-> g,
                                    minutes |-> auto_close_minutes, list |-> inactive_tickets]
    /\ outcome' = IF inactive'.pc = "failed" THEN [op |-> "inactive", result |-> "raised"]
                  ELSE IF inactive'.pc = "tickets" THEN [op |-> "inactive", result |-> "selected"]
                  ELSE [op |-> "inactive", result |-> "nothing selected"]
    /\ UNCHANGED <<now, tickets, channels, channel_seq, server_config, guild_configs,
                   creating, message, closing, forcing, stale, warnings, commands>>
    /\ UNCHANGED side

\* channel = guild.get_channel(ticket['channel_id']); if channel: await channel.send(warning)
InactiveWarn ==
    /\ inactive.pc = "tickets"
    /\ LET ticket == Head(inactive.list)
       IN  IF tickets[ticket].channel_id \notin DOMAIN channels
           THEN /\ inactive' = Advance(inactive)
                /\ UNCHANGED <<warnings, outcome>>
           ELSE /\ inactive' = [inactive EXCEPT !.pc = "mark"]
                /\ warnings' = [warnings EXCEPT ![ticket] = IF @ < 2 THEN @ + 1 ELSE @]
                /\ outcome' = [op |-> "inactive", result |-> "warned"]
    /\ UNCHANGED <<now, tickets, channels, channel_seq, server_config, guild_configs,
                   creating, message, closing, forcing, stale, commands>>
    /\ UNCHANGED side

\* await db.mark_inactivity_warning_sent(ticket['channel_id'])
InactiveMark ==
    /\ inactive.pc = "mark"
    /\ tickets' = mark_inactivity_warning_sent(tickets, tickets[Head(inactive.list)].channel_id)
    /\ inactive' = Advance(inactive)
    /\ outcome' = [op |-> "inactive", result |-> "marked"]
    /\ UNCHANGED <<now, channels, channel_seq, server_config, guild_configs,
                   creating, message, closing, forcing, stale, warnings, commands>>
    /\ UNCHANGED side

\* ------------------------------------------------------------ specification
Next ==
    \/ Tick
    \/ \E g \in Guilds, k \in Keys : \E v \in ValidValues(k) : ConfigWrite(g, k, v)
    \/ \E g \in Guilds : ViewSettings(g)
    \/ \E s \in CreateSlots, g \in Guilds, u \in Users : CreateCheck(s, g, u)
    \/ \E s \in CreateSlots : CreateName(s)
    \/ \E s \in CreateSlots : CreateChannel(s)
    \/ \E s \in CreateSlots : CreateInsert(s)
    \/ \E u \in Users \cup {BotUser}, ch \in DOMAIN channels : MessageRead(u, ch)
    \/ MessageUpdate
    \/ \E u \in Users, ch \in DOMAIN channels : CloseRead(u, ch)
    \/ CloseCommit
    \/ CloseFinish
    \/ CloseDelete
    \/ \E u \in Users, g \in Guilds, id \in 1 .. MaxTickets : ForceSelect(u, g, id)
    \/ ForceCommit
    \/ ForceFinish
    \/ \E s \in ClaimSlots, u \in Users, ch \in DOMAIN channels : ClaimRead(s, u, ch)
    \/ \E s \in ClaimSlots : ClaimWrite(s)
    \/ \E u \in Users, ch \in DOMAIN channels : UnclaimRead(u, ch)
    \/ UnclaimWrite
    \/ \E u \in Users, ch \in DOMAIN channels : RequestRead(u, ch)
    \/ RequestWrite
    \/ StaleStart
    \/ StaleSelect
    \/ StaleClose
    \/ StaleFinish
    \/ InactiveStart
    \/ InactiveSelect
    \/ InactiveWarn
    \/ InactiveMark

Spec == Init /\ [][Next]_vars

\* The guild after its administrator ran /setup (ConfigWrite steps from Init) and
\* before any handler loaded its configuration, with and without an archive
\* category, at clock value t (Tick steps from Init).
SetupConfig == [ticket_category |-> TicketCategoryId, support_role |-> SupportRoleId,
                max_tickets |-> 2, auto_close_minutes |-> 1, auto_close_days |-> 1]

Configured(t) ==
    /\ now = t
    /\ tickets = << >>
    /\ channels = << >>
    /\ channel_seq = 0
    /\ server_config \in {(1 :> SetupConfig),
                          (1 :> (("archive_category" :> ArchiveCategoryId) @@ SetupConfig))}
    /\ guild_configs = << >>
    /\ creating = [s \in CreateSlots |-> Idle]
    /\ message = Idle
    /\ closing = Idle
    /\ forcing = Idle
    /\ stale = Idle
    /\ inactive = Idle
    /\ claiming = [s \in ClaimSlots |-> Idle]
    /\ unclaiming = Idle
    /\ requesting = Idle
    /\ warnings = << >>
    /\ outcome = [op |-> "none", result |-> "none"]
    /\ SideIdle

InitConfigured == Configured(0)

\* The same one clock unit later.
InitConfiguredLater == Configured(1)

\* Creation racing with creation, with closes and with configuration writes.
NextCreate ==
    \/ \E g \in Guilds, k \in {"ticket_category", "max_tickets"} :
          \E v \in ValidValues(k) : ConfigWrite(g, k, v)
    \/ \E s \in CreateSlots, g \in Guilds : CreateCheck(s, g, 1)
    \/ \E s \in CreateSlots : CreateName(s)
    \/ \E s \in CreateSlots : CreateChannel(s)
    \/ \E s \in CreateSlots : CreateInsert(s)
    \/ \E ch \in DOMAIN channels : CloseRead(4, ch)
    \/ CloseCommit
    \/ CloseFinish
    \/ CloseDelete

SpecCreate == Init /\ [][NextCreate]_vars

\* The three close paths racing with each other and with user messages.
NextClose ==
    \/ Tick
    \/ \E g \in Guilds : CreateCheck(1, g, 1)
    \/ CreateName(1)
    \/ CreateChannel(1)
    \/ CreateInsert(1)
    \/ \E ch \in DOMAIN channels : MessageRead(1, ch)
    \/ MessageUpdate
    \/ \E u \in {1, 2}, ch \in DOMAIN channels : CloseRead(u, ch)
    \/ CloseCommit
    \/ CloseFinish
    \/ CloseDelete
    \/ \E u \in {1, 4}, g \in Guilds, id \in 1 .. MaxTickets : ForceSelect(u, g, id)
    \/ ForceCommit
    \/ ForceFinish
    \/ StaleStart
    \/ StaleSelect
    \/ StaleClose
    \/ StaleFinish

SpecClose == InitConfiguredLater /\ [][NextClose]_vars

\* The two sweeps racing with messages of customers, staff and bots.
NextSweep ==
    \/ Tick
    \/ \E g \in Guilds : CreateCheck(1, g, 1)
    \/ CreateName(1)
    \/ CreateChannel(1)
    \/ CreateInsert(1)
    \/ \E u \in {1, 2, BotUser}, ch \in DOMAIN channels : MessageRead(u, ch)
    \/ MessageUpdate
    \/ StaleStart
    \/ StaleSelect
    \/ StaleClose
    \/ StaleFinish
    \/ InactiveStart
    \/ InactiveSelect
    \/ InactiveWarn
    \/ InactiveMark

SpecSweep == InitConfigured /\ [][NextSweep]_vars

\* Configuration writes and reads through the cache.
NextConfig ==
    \/ \E g \in Guilds, k \in Keys : \E v \in ValidValues(k) : ConfigWrite(g, k, v)
    \/ \E g \in Guilds : ViewSettings(g)

SpecConfig == Init /\ [][NextConfig]_vars

\* The guild with both staff roles configured and the first ticket of customer 1,
\* created on channel 1 at time 0 (the state CreateInsert leaves behind) and silent
\* since, two clock units later; with and without an archive category.
StaffConfig == ("trainee_role" :> TraineeRoleId) @@ SetupConfig

InitTicketOpen ==
    /\ now = 2
    /\ tickets = <<NewTicket(1, 1, 1, 0)>>
    /\ channels = (1 :> [guild |-> 1, archived |-> FALSE])
    /\ channel_seq = 1
    /\ server_config \in {(1 :> StaffConfig),
                          (1 :> (("archive_category" :> ArchiveCategoryId) @@ StaffConfig))}
    /\ guild_configs = server_config
    /\ creating = [s \in CreateSlots |-> Idle]
    /\ message = Idle
    /\ closing = Idle
    /\ forcing = Idle
    /\ stale = Idle
    /\ inactive = Idle
    /\ claiming = [s \in ClaimSlots |-> Idle]
    /\ unclaiming = Idle
    /\ requesting = Idle
    /\ warnings = <<0>>
    /\ outcome = [op |-> "create", result |-> "created"]
    /\ SideIdle

\* The commands of staff and customer on a ticket channel, racing with each other,
\* with user messages, with the manual close and with the inactivity sweep.
NextStaff ==
    \/ \E ch \in DOMAIN channels : MessageRead(1, ch)
    \/ MessageUpdate
    \/ \E ch \in DOMAIN channels : CloseRead(2, ch)
    \/ CloseCommit
    \/ CloseFinish
    \/ CloseDelete
    \/ \E s \in ClaimSlots, u \in Users, ch \in DOMAIN channels : ClaimRead(s, u, ch)
    \/ \E s \in ClaimSlots : ClaimWrite(s)
    \/ \E u \in Users, ch \in DOMAIN channels : UnclaimRead(u, ch)
    \/ UnclaimWrite
    \/ \E u \in {1, 2}, ch \in DOMAIN channels : RequestRead(u, ch)
    \/ RequestWrite
    \/ InactiveStart
    \/ InactiveSelect
    \/ InactiveWarn
    \/ InactiveMark

SpecStaff == InitTicketOpen /\ [][NextStaff]_vars

\* The two sweeps while an administrator rewrites the thresholds.
NextThreshold ==
    \/ Tick
    \/ \E g \in Guilds, k \in {"auto_close_minutes", "auto_close_days"} :
          \E v \in ValidValues(k) : ConfigWrite(g, k, v)
    \/ \E g \in Guilds : CreateCheck(1, g, 1)
    \/ CreateName(1)
    \/ CreateChannel(1)
    \/ CreateInsert(1)
    \/ StaleStart
    \/ StaleSelect
    \/ StaleClose
    \/ StaleFinish
    \/ InactiveStart
    \/ InactiveSelect
    \/ InactiveWarn
    \/ InactiveMark

SpecThreshold == InitConfigured /\ [][NextThreshold]_vars

\* =================================================================== claims

\* The steps that write a close to the store: close_ticket from the manual close or
\* from the staleness sweep, and force_close's UPDATE.
ManualCloseWrite == closing.pc = "read" /\ closing'.pc = "closed"
StaleCloseWrite == stale.pc = "tickets" /\ stale'.pc = "sleep"
ForceCloseWrite == forcing.pc = "found" /\ forcing'.pc # "found"

\* A step of on_message that runs update_last_response.
MessageWrite == message.pc = "read" /\ message'.pc = "idle"

\* C1: in every reachable state, every creator has at most max_tickets open tickets
\* in a community, max_tickets being the value the process reads for that community.
C1_OpenWithinMax ==
    \A g \in DOMAIN guild_configs : \A u \in Users :
        Cardinality(get_user_tickets(tickets, g, u)) <= ConfigGet(guild_configs[g], "max_tickets")

\* C2: a close that is written for a ticket that another close path has already
\* closed changes nothing of that ticket's record (status and closed_at stay as the
\* first close wrote them).
C2_SecondCloseNoChange ==
    [][(ManualCloseWrite \/ StaleCloseWrite \/ ForceCloseWrite) =>
          \A i \in DOMAIN tickets :
              tickets[i].status = "closed" =>
                  /\ tickets'[i].status = tickets[i].status
                  /\ tickets'[i].closed_at = tickets[i].closed_at]_vars

\* C3: once a ticket is closed no step changes any field of its record.
C3_ClosedImmutable ==
    [][\A i \in DOMAIN tickets : tickets[i].status = "closed" => tickets'[i] = tickets[i]]_vars

\* C4: closed is terminal: a ticket that is closed is closed after every step.
C4_ClosedTerminal ==
    [][\A i \in DOMAIN tickets :
          tickets[i].status = "closed" => tickets'[i].status = "closed"]_vars

\* C4 witness: two close paths have both written their close for the same ticket,
\* which is closed.
C4_Witness ==
    /\ closing.pc = "closed"
    /\ stale.pc = "sleep"
    /\ closing.ticket = Head(stale.list)
    /\ tickets[closing.ticket].status = "closed"

\* C5: closed_at is set exactly for the closed tickets.
C5_ClosedAtIffClosed ==
    \A i \in DOMAIN tickets : (tickets[i].closed_at # NoTime) <=> (tickets[i].status = "closed")

\* C5 witness: a closed ticket with its closing time beside an open ticket without one.
C5_Witness ==
    \E i, j \in DOMAIN tickets :
        /\ tickets[i].status = "closed" /\ tickets[i].closed_at = now /\ now > 0
        /\ tickets[j].status = "open" /\ tickets[j].closed_at = NoTime

\* C6: whenever the staleness sweep writes the close of an open ticket, the creator's
\* last response lies at least the close threshold (the days the tick read) back.
C6_StaleCloseOnlyWhenSilent ==
    [][StaleCloseWrite =>
          LET ticket == Head(stale.list)
          IN  tickets[ticket].status = "open" =>
                  now - tickets[ticket].last_user_response >= stale.days * MinutesPerDay]_vars

C8_MessageResetsWarning ==
    [][\A i \in DOMAIN tickets :
          /\ (MessageWrite /\ i \in OpenRows(message.channel)) =>
                 /\ tickets'[i].last_user_response = now
                 /\ tickets'[i].inactivity_warning_sent = 0
          /\ (tickets[i].inactivity_warning_sent = 0 /\ tickets'[i].inactivity_warning_sent = 1) =>
                 (inactive.pc = "mark" /\ inactive'.pc # "mark")]_vars

\* C8 witness: a user message was processed on a warned ticket and cleared the flag.
C8_Witness ==
    /\ outcome = [op |-> "on_message", result |-> "warning cleared"]
    /\ \E i \in DOMAIN tickets :
          /\ tickets[i].status = "open"
          /\ tickets[i].last_user_response = now
          /\ tickets[i].inactivity_warning_sent = 0
          /\ warnings[i] = 0

\* C9: a message of a bot or of a holder of the support or trainee role leaves
\* last_user_response and inactivity_warning_sent of every ticket unchanged.
C9_StaffMessageNoEffect ==
    [][(MessageWrite /\ (message.author = BotUser
                          \/ MemberRoles(message.author) \cap {SupportRoleId, TraineeRoleId} # {})) =>
          \A i \in DOMAIN tickets :
              /\ tickets'[i].last_user_response = tickets[i].last_user_response
              /\ tickets'[i].inactivity_warning_sent = tickets[i].inactivity_warning_sent]_vars

\* C10: a get of a key returns the value last set for it (the store holds, per
\* community, the last value written for every key that was ever set).
C10_GetReturnsLastSet ==
    \A g \in DOMAIN server_config : \A k \in DOMAIN server_config[g] :
        ConfigGet(get_config(g), k) = server_config[g][k]

\* The list a sweep's tick holds after its selection for a guild.
Selected(loop) == IF loop.pc = "tickets" THEN loop.list ELSE << >>

\* C11: every selection of a sweep tick for a community is the selection under the
\* threshold last written for that community (the stored value, or the default when
\* none was written), also when the configuration was loaded before the write.
C11_SweepUsesWrittenThreshold ==
    [][/\ (inactive.pc = "guilds" /\ inactive.todo # {} /\ inactive' # inactive) =>
             \E g \in inactive.todo :
                 /\ inactive'.todo = inactive.todo \ {g}
                 /\ Selected(inactive') = get_inactive_tickets(tickets, g,
                        ConfigGet(LoadConfig(g), "auto_close_minutes"), now)
       /\ (stale.pc = "guilds" /\ stale.todo # {} /\ stale' # stale) =>
             \E g \in stale.todo :
                 /\ stale'.todo = stale.todo \ {g}
                 /\ Selected(stale') = get_stale_tickets(tickets, g,
                        ConfigGet(LoadConfig(g), "auto_close_days"), now)]_vars

\* Staff capability: the member holds the support or the trainee role of the
\* community's configuration.
Staff(config, u) ==
    \E k \in {"support_role", "trainee_role"} : ConfigGet(config, k) \in MemberRoles(u)

\* The steps that run a store mutation of a command handler or of the inactivity sweep.
ClaimStore(s) == claiming[s].pc = "read" /\ claiming'[s].pc = "idle"
UnclaimStore == unclaiming.pc = "read" /\ unclaiming'.pc = "idle"
RequestStore == requesting.pc = "read" /\ requesting'.pc = "idle"
MarkStore == inactive.pc = "mark" /\ inactive'.pc # "mark"

\* The answer NotFound of a command: nothing but the answer changes.
Rejected(op) ==
    /\ outcome' = [op |-> op, result |-> "NotFound"]
    /\ UNCHANGED <<tickets, channels, commands, closing>>

\* C12: claim, unclaim, request-close and manual close, issued on a channel whose
\* ticket is closed by an actor entitled to the command, are answered NotFound and
\* change neither the ticket records nor the channel, and no handler goes on to its
\* write and notification.
C12_ClosedTicketCommandsNotFound ==
    [][\A ch \in DOMAIN channels :
          LET ticket == get_ticket_by_channel(tickets, ch)
              config == get_config(channels[ch].guild)
          IN  (ticket # NULL /\ tickets[ticket].status = "closed") =>
                 \A u \in Users :
                    /\ \A s \in ClaimSlots :
                          (ClaimRead(s, u, ch) /\ Staff(config, u)) => Rejected("claim")
                    /\ (UnclaimRead(u, ch) /\ Staff(config, u)) => Rejected("unclaim")
                    /\ (RequestRead(u, ch) /\ u = tickets[ticket].creator_id) =>
                           Rejected("request_close")
                    /\ (CloseRead(u, ch) /\ (Staff(config, u) \/ u \in Administrators)) =>
                           Rejected("close")]_vars

\* A store mutation aimed at channel ch leaves alone every record that is closed or
\* belongs to another channel.
NoOpOn(ch) ==
    \A i \in DOMAIN tickets :
        (tickets[i].channel_id # ch \/ tickets[i].status = "closed") => tickets'[i] = tickets[i]

\* C13: update_last_response, mark_inactivity_warning_sent, request_close, claim_ticket
\* and unclaim_ticket change no record of a closed ticket and no record of another
\* channel, also when their caller read the ticket as open before a close committed.
C13_MutationsSkipClosed ==
    [][/\ MessageWrite => NoOpOn(message.channel)
       /\ MarkStore => NoOpOn(tickets[Head(inactive.list)].channel_id)
       /\ RequestStore => NoOpOn(requesting.channel)
       /\ UnclaimStore => NoOpOn(unclaiming.channel)
       /\ \A s \in ClaimSlots : ClaimStore(s) => NoOpOn(claiming[s].channel)]_vars

\* C13 witness: a message handler that read the ticket as open ran its update after
\* the close and matched no row; the sweep is about to mark the same closed ticket.
C13_Witness ==
    /\ outcome = [op |-> "on_message", result |-> "no row"]
    /\ inactive.pc = "mark"
    /\ tickets[Head(inactive.list)].status = "closed"

\* C14: the write of a claim never replaces a claimant: a claimed_by that is set is
\* the same after the write, also when two claims are in flight together.
C14_ClaimNeverOverwrites ==
    [][\A s \in ClaimSlots :
          ClaimStore(s) =>
              \A i \in DOMAIN tickets :
                  tickets[i].claimed_by # NULL => tickets'[i].claimed_by = tickets[i].claimed_by]_vars

\* C15: claimed_by becomes a member only by the write of a claim of that member, who
\* has staff capability; the claim of a member without staff capability is answered
\* PermissionDenied and changes no record and starts no write.
C15_ClaimantIsStaff ==
    [][/\ \A i \in DOMAIN tickets :
             (tickets'[i].claimed_by # tickets[i].claimed_by /\ tickets'[i].claimed_by # NULL) =>
                 \E s \in ClaimSlots :
                     /\ ClaimStore(s)
                     /\ claiming[s].author = tickets'[i].claimed_by
                     /\ Staff(get_config(tickets[i].guild_id), claiming[s].author)
       /\ \A s \in ClaimSlots, u \in Users, ch \in DOMAIN channels :
             (ClaimRead(s, u, ch) /\ ~Staff(get_config(channels[ch].guild), u)) =>
                 /\ outcome' = [op |-> "claim", result |-> "PermissionDenied"]
                 /\ UNCHANGED <<tickets, commands>>]_vars

\* C15 witness: a claimed ticket, and a claim of a member without staff role refused.
C15_Witness ==
    /\ outcome = [op |-> "claim", result |-> "PermissionDenied"]
    /\ \E i \in DOMAIN tickets :
          /\ tickets[i].status = "open"
          /\ tickets[i].claimed_by # NULL
          /\ Staff(get_config(tickets[i].guild_id), tickets[i].claimed_by)

\* C16: unclaim on an open claimed ticket goes on to clear claimed_by exactly when the
\* actor is the claimant or an administrator; a staff member who is neither is answered
\* NotOwner, and on an unclaimed ticket a staff member is answered NotClaimed; the
\* refusals change nothing.
C16_UnclaimByOwnerOrAdmin ==
    [][\A u \in Users, ch \in DOMAIN channels :
          LET ticket == get_ticket_by_channel(tickets, ch)
              config == get_config(channels[ch].guild)
          IN  (UnclaimRead(u, ch) /\ ticket # NULL /\ tickets[ticket].status = "open") =>
                 IF tickets[ticket].claimed_by = NULL
                 THEN /\ UNCHANGED <<tickets, commands>>
                      /\ Staff(config, u) => outcome' = [op |-> "unclaim", result |-> "NotClaimed"]
                 ELSE IF u = tickets[ticket].claimed_by \/ u \in Administrators
                 THEN unclaiming'.pc = "read"
                 ELSE /\ UNCHANGED <<tickets, commands>>
                      /\ Staff(config, u) => outcome' = [op |-> "unclaim", result |-> "NotOwner"]]_vars

\* C17: the unclaim of a member that directly follows the same member's claim of an
\* open unclaimed ticket leaves the record equal, in every field, to the record
\* before the claim.
C17_ClaimUnclaimRoundTrip ==
    [][(/\ UnclaimStore
        /\ outcome.op = "claim" /\ outcome.result = "claimed"
        /\ outcome.author = unclaiming.author
        /\ outcome.ticket = unclaiming.ticket
        /\ outcome.before.status = "open" /\ outcome.before.claimed_by = NULL) =>
           tickets'[outcome.ticket] = outcome.before]_vars

\* C17 witness: the claimant's unclaim has run on a ticket that had been warned before
\* the claim; the record is the claimed record with claimed_by unset.
C17_Witness ==
    /\ outcome.op = "unclaim" /\ outcome.result = "unclaimed"
    /\ outcome.before.claimed_by = outcome.author
    /\ outcome.before.inactivity_warning_sent = 1
    /\ tickets[outcome.ticket] = [outcome.before EXCEPT !.claimed_by = NULL]
    /\ tickets[outcome.ticket].status = "open"

C19_CloseRequestedMonotone ==
    [][\A i \in DOMAIN tickets :
          tickets[i].close_requested = 1 => tickets'[i].close_requested = 1]_vars

\* C19 witness: a ticket whose close was requested has since been answered by the
\* user, claimed and closed, and still carries the request.
C19_Witness ==
    \E i \in DOMAIN tickets :
        /\ tickets[i].close_requested = 1
        /\ tickets[i].status = "closed"
        /\ tickets[i].claimed_by # NULL
        /\ tickets[i].last_user_response = now

\* C20: the manual close writes its close only for an actor with staff capability or
\* an administrator; the close of any other actor is answered PermissionDenied and
\* changes neither the ticket records nor the channels.
C20_ManualCloseNeedsStaffOrAdmin ==
    [][/\ ManualCloseWrite =>
             \/ Staff(get_config(tickets[closing.ticket].guild_id), closing.author)
             \/ closing.author \in Administrators
       /\ \A u \in Users, ch \in DOMAIN channels :
             (/\ CloseRead(u, ch)
              /\ ~Staff(get_config(channels[ch].guild), u)
              /\ u \notin Administrators) =>
                 /\ outcome' = [op |-> "close", result |-> "PermissionDenied"]
                 /\ UNCHANGED <<tickets, channels, closing>>]_vars

\* C20 witness: a staff member has closed one ticket, and the customer's close of
\* the other, open ticket was refused.
C20_Witness ==
    /\ outcome = [op |-> "close", result |-> "PermissionDenied"]
    /\ \E i, j \in DOMAIN tickets :
          /\ tickets[i].status = "closed"
          /\ tickets[j].status = "open"
          /\ tickets[j].channel_id \in DOMAIN channels

\* C21: force close by id goes on to its write exactly for an administrator and the
\* id of an open ticket; another member is answered PermissionDenied, an
\* administrator naming an unknown id or a closed ticket NotFound, both with every
\* record unchanged; the write is an administrator's and closes the ticket it names
\* and no other.
C21_ForceCloseAdminAndOpen ==
    [][/\ \A u \in Users, g \in Guilds, id \in 1 .. MaxTickets :
             ForceSelect(u, g, id) =>
                 IF u \notin Administrators
                 THEN /\ outcome' = [op |-> "force_close", result |-> "PermissionDenied"]
                      /\ UNCHANGED <<tickets, forcing>>
                 ELSE IF id \notin DOMAIN tickets \/ tickets[id].status # "open"
                 THEN /\ outcome' = [op |-> "force_close", result |-> "NotFound"]
                      /\ UNCHANGED <<tickets, forcing>>
                 ELSE forcing'.pc = "found" /\ forcing'.ticket = id /\ UNCHANGED tickets
       /\ ForceCloseWrite =>
             /\ forcing.author \in Administrators
             /\ tickets'[forcing.ticket].status = "closed"
             /\ \A i \in DOMAIN tickets \ {forcing.ticket} : tickets'[i] = tickets[i]]_vars

\* C21 witness: with every ticket closed and a channel gone, an administrator's
\* force close, whatever id it named, was answered NotFound.
C21_Witness ==
    /\ outcome = [op |-> "force_close", result |-> "NotFound"]
    /\ Len(tickets) = MaxTickets
    /\ \A i \in DOMAIN tickets : tickets[i].status = "closed"
    /\ \E i \in DOMAIN tickets : tickets[i].channel_id \notin DOMAIN channels

\* The step of a creation that inserts its row.
CreateStore(s) == creating[s].pc = "channel" /\ creating'[s].pc = "idle"

\* C25: a successful create appends exactly one record, open, unclaimed, without
\* closing time and flags, with last_user_response the time of the insert, for the
\* creator, channel and community of the creation; it changes no other record, and
\* no other step adds a record.
C25_CreateAddsOneOpenRecord ==
    [][/\ \A s \in CreateSlots :
             CreateStore(s) =>
                 /\ Len(tickets') = Len(tickets) + 1
                 /\ \A i \in DOMAIN tickets : tickets'[i] = tickets[i]
                 /\ LET new == tickets'[Len(tickets')]
                    IN  /\ new.status = "open"
                        /\ new.claimed_by = NULL
                        /\ new.closed_at = NoTime
                        /\ new.close_requested = 0
                        /\ new.inactivity_warning_sent = 0
                        /\ new.last_user_response = now
                        /\ new.creator_id = creating[s].user
                        /\ new.channel_id = creating[s].channel
                        /\ new.guild_id = creating[s].guild
       /\ Len(tickets') # Len(tickets) => \E s \in CreateSlots : CreateStore(s)]_vars

\* C25 witness: the second ticket was just created beside the first, closed one.
C25_Witness ==
    /\ outcome = [op |-> "create", result |-> "created"]
    /\ Len(tickets) = 2
    /\ tickets[1].status = "closed"
    /\ tickets[2].status = "open"
    /\ tickets[2].last_user_response = now
    /\ tickets[2].last_user_response > tickets[1].last_user_response

\* A close handler's step on which a platform call raises after the commit.
Failed ==
    \/ closing.pc \in {"closed", "sleep"} /\ closing'.pc = "idle"
                                          /\ outcome' = [op |-> "close", result |-> "raised"]
    \/ forcing.pc = "sleep" /\ forcing'.pc = "idle"
                            /\ outcome' = [op |-> "force_close", result |-> "raised"]
    \/ stale.pc = "sleep" /\ stale'.pc = "failed"

\* C27: the step on which transcript, archival or deletion fails after the commit of
\* a close changes no ticket record and puts no handler back before a close write
\* (the close is not run again); the sweep task that failed has stopped for good;
\* a closed ticket stays closed.
C27_FailureKeepsClosed ==
    [][/\ Failed =>
             /\ tickets' = tickets
             /\ closing'.pc = "read" => closing' = closing
             /\ forcing'.pc = "found" => forcing' = forcing
             /\ stale'.pc = "tickets" => stale' = stale
       /\ stale.pc = "failed" => stale'.pc = "failed"
       /\ \A i \in DOMAIN tickets :
             tickets[i].status = "closed" => tickets'[i].status = "closed"]_vars

\* C27 witness: the manual close has failed after its commit, the channel being gone;
\* the ticket it closed is closed with its closing time.
C27_Witness ==
    /\ outcome = [op |-> "close", result |-> "raised"]
    /\ closing = Idle
    /\ \E i \in DOMAIN tickets :
          /\ tickets[i].status = "closed"
          /\ tickets[i].closed_at # NoTime
          /\ tickets[i].channel_id \notin DOMAIN channels

OpenTicketsOf(g, u) ==
    {i \in DOMAIN tickets :
        tickets[i].guild_id = g /\ tickets[i].creator_id = u /\ tickets[i].status = "open"}

Stored(g, k) == IF g \in DOMAIN server_config /\ k \in DOMAIN server_config[g]
                THEN server_config[g][k] ELSE DEFAULT_CONFIG[k]

\* C22: in a community whose stored max_tickets is 1 and whose ticket category
\* resolves, the checks of a create pass when the user has no open ticket and answer
\* LimitExceeded, with nothing changed, when the user has one (so the first create
\* passes, the second is refused, and the create after the close passes); every
\* insert takes an id above the ids given before.
C22_LimitOneScenario ==
    [][/\ \A s \in CreateSlots, g \in Guilds, u \in Users :
             (/\ CreateCheck(s, g, u)
              /\ Stored(g, "max_tickets") = 1
              /\ ConfigGet(get_config(g), "ticket_category") \in ExistingCategories) =>
                 IF OpenTicketsOf(g, u) # {}
                 THEN /\ outcome' = [op |-> "create", result |-> "LimitExceeded"]
                      /\ UNCHANGED <<tickets, channels, creating>>
                 ELSE creating'[s].pc = "checked"
       /\ \A s \in CreateSlots :
             CreateStore(s) => \A i \in DOMAIN tickets : Len(tickets') > i]_vars

\* C26: a create whose creator already has the maximum of open tickets, or whose
\* community has no resolvable ticket category, is answered LimitExceeded or
\* NotConfigured and changes neither the ticket records nor the channels, and no
\* creation goes on; the settings are those the handler reads.
C26_FailedCreateChangesNothing ==
    [][\A s \in CreateSlots, g \in Guilds, u \in Users :
          LET config == get_config(g)
              full == Cardinality(OpenTicketsOf(g, u)) >= ConfigGet(config, "max_tickets")
              unset == ConfigGet(config, "ticket_category") \notin ExistingCategories
          IN  (CreateCheck(s, g, u) /\ (full \/ unset)) =>
                 /\ outcome' = [op |-> "create",
                                result |-> IF full THEN "LimitExceeded" ELSE "NotConfigured"]
                 /\ UNCHANGED <<tickets, channels, channel_seq, creating>>]_vars

\* C26 witness: a create was refused with LimitExceeded while the creator's open
\* tickets fill the maximum; records and channels are those of the earlier creates.
C26_Witness ==
    /\ outcome = [op |-> "create", result |-> "LimitExceeded"]
    /\ \A s \in CreateSlots : creating[s].pc = "idle"
    /\ Cardinality(OpenTicketsOf(1, 1)) = ConfigGet(get_config(1), "max_tickets")
    /\ Cardinality(DOMAIN channels) = Len(tickets)

\* C28: for every community and key, get returns the stored value when the stored
\* configuration of the community contains the key, and the default of the key
\* otherwise (every key of a community without stored configuration).
C28_GetStoredOrDefault ==
    \A g \in Guilds : \A k \in Keys : ConfigGet(get_config(g), k) = Stored(g, k)

\* The guild a sweep's selection step has just handled.
Swept(loop, g) == loop.pc = "guilds" /\ g \in loop.todo /\ loop'.pc \notin {"idle", "failed"}
                                    /\ loop'.todo = loop.todo \ {g}

\* C23: an inactivity tick on an open, unwarned ticket that has been silent longer
\* than the warn threshold selects it, and its mark leaves the ticket, if still
\* open, warned and open; a staleness tick on an open ticket silent longer than the
\* close threshold selects it, and its close leaves the ticket closed with closed_at
\* the time of the write.  The thresholds are those the tick reads.
C23_WarnThenCloseScenario ==
    [][/\ \A g \in Guilds : \A i \in DOMAIN tickets :
             (/\ Swept(inactive, g)
              /\ tickets[i].guild_id = g /\ tickets[i].status = "open"
              /\ tickets[i].inactivity_warning_sent = 0
              /\ now - tickets[i].last_user_response >
                     ConfigGet(get_config(g), "auto_close_minutes")) =>
                 \E n \in DOMAIN Selected(inactive') : Selected(inactive')[n] = i
       /\ MarkStore =>
             LET i == Head(inactive.list)
             IN  tickets[i].status = "open" =>
                     /\ tickets'[i].inactivity_warning_sent = 1
                     /\ tickets'[i].status = "open"
       /\ \A g \in Guilds : \A i \in DOMAIN tickets :
             (/\ Swept(stale, g)
              /\ tickets[i].guild_id = g /\ tickets[i].status = "open"
              /\ now - tickets[i].last_user_response >
                     ConfigGet(get_config(g), "auto_close_days") * MinutesPerDay) =>
                 \E n \in DOMAIN Selected(stale') : Selected(stale')[n] = i
       /\ StaleCloseWrite =>
             LET i == Head(stale.list)
             IN  tickets'[i].status = "closed" /\ tickets'[i].closed_at = now]_vars

\* C23 witness: a ticket never answered since its creation at time 0 has been warned
\* and has just been closed by the staleness sweep, closed_at being the present time.
C23_Witness ==
    /\ outcome = [op |-> "stale", result |-> "committed"]
    /\ \E i \in DOMAIN tickets :
          /\ tickets[i].last_user_response = 0
          /\ tickets[i].inactivity_warning_sent = 1
          /\ warnings[i] = 1
          /\ tickets[i].status = "closed"
          /\ tickets[i].closed_at = now

\* C30: the inactivity tick selects exactly the open, unwarned tickets of the
\* community with now - last_user_response >= warn threshold, the staleness tick
\* exactly the open tickets with now - last_user_response >= close threshold, the
\* thresholds being those the tick reads.
C30_SelectionAtThreshold ==
    [][\A g \in Guilds :
          /\ Swept(inactive, g) =>
                \A i \in DOMAIN tickets :
                    (\E n \in DOMAIN Selected(inactive') : Selected(inactive')[n] = i) <=>
                        /\ tickets[i].guild_id = g /\ tickets[i].status = "open"
                        /\ tickets[i].inactivity_warning_sent = 0
                        /\ now - tickets[i].last_user_response >=
                               ConfigGet(get_config(g), "auto_close_minutes")
          /\ Swept(stale, g) =>
                \A i \in DOMAIN tickets :
                    (\E n \in DOMAIN Selected(stale') : Selected(stale')[n] = i) <=>
                        /\ tickets[i].guild_id = g /\ tickets[i].status = "open"
                        /\ now - tickets[i].last_user_response >=
                               ConfigGet(get_config(g), "auto_close_days") * MinutesPerDay]_vars

\* ------------------------------------------------- the staleness sweep, scheduled
\* A member with the platform's manage-channels right deletes a ticket channel by
\* hand.  The program registers no handler for the deletion: the ticket's record is
\* untouched and guild.get_channel(ticket['channel_id']) answers None from then on.
PlatformDelete(ch) ==
    /\ ch \in DOMAIN channels
    /\ channels' = Delete(ch)
    /\ UNCHANGED <<now, tickets, channel_seq, server_config, guild_configs,
                   creating, message, closing, forcing, stale, inactive, warnings,
                   outcome, commands>>
    /\ UNCHANGED side

\* Creation by member 1, the passing of time, the staleness sweep, and the platform.
NextLive ==
    \/ Tick
    \/ \E g \in Guilds : CreateCheck(1, g, 1)
    \/ CreateName(1)
    \/ CreateChannel(1)
    \/ CreateInsert(1)
    \/ StaleStart
    \/ StaleSelect
    \/ StaleClose
    \/ StaleFinish
    \/ \E ch \in DOMAIN channels : PlatformDelete(ch)

\* tasks.loop starts a new tick of check_stale_tickets after each one that returned,
\* and the event loop resumes every coroutine whose await has completed; time passes.
FairSweep ==
    /\ WF_vars(Tick)
    /\ WF_vars(StaleStart)
    /\ WF_vars(StaleSelect)
    /\ WF_vars(StaleClose)
    /\ WF_vars(StaleFinish)

SpecLive == InitConfigured /\ [][NextLive]_vars /\ FairSweep

\* C24: under fair scheduling of the staleness sweep, every open ticket of a loaded
\* community that has been silent for the close threshold or longer is eventually
\* closed, whether or not its channel still exists on the platform.  (No message
\* arrives in SpecLive, so the creator stays silent; the clock has not yet reached
\* its bound, so a later tick sees the silence grown.)
C24_SilentTicketEventuallyClosed ==
    \A i \in 1 .. MaxTickets :
        (/\ i \in DOMAIN tickets
         /\ tickets[i].guild_id \in DOMAIN guild_configs
         /\ tickets[i].status = "open"
         /\ now < MaxTime
         /\ now - tickets[i].last_user_response >=
                ConfigGet(get_config(tickets[i].guild_id), "auto_close_days") * MinutesPerDay)
        ~> (i \in DOMAIN tickets /\ tickets[i].status = "closed")

\* The inactivity sweep sends its warning into the channel of the ticket it reached.
WarnSend == inactive.pc = "tickets" /\ inactive'.pc = "mark"

\* C31: a warning is sent, and the warning flag set by the sweep, only for a ticket
\* that at that moment is open, unwarned and silent for at least the warn threshold
\* the tick read.
C31_WarningOnlyWhenDue ==
    [][/\ WarnSend =>
             LET i == Head(inactive.list)
             IN  /\ tickets[i].status = "open"
                 /\ tickets[i].inactivity_warning_sent = 0
                 /\ now - tickets[i].last_user_response >= inactive.minutes
       /\ MarkStore =>
             LET i == Head(inactive.list)
             IN  tickets'[i].inactivity_warning_sent # tickets[i].inactivity_warning_sent =>
                     now - tickets[i].last_user_response >= inactive.minutes]_vars

\* ------------------------------------------------ force close across communities
\* A second community served by the same process and the same tickets table.
OtherGuild == 2

\* Both communities after /setup, nothing loaded yet.
InitTwoGuilds ==
    /\ now = 0
    /\ tickets = << >>
    /\ channels = << >>
    /\ channel_seq = 0
    /\ server_config \in
          {(1 :> SetupConfig) @@ (OtherGuild :> SetupConfig),
           (1 :> (("archive_category" :> ArchiveCategoryId) @@ SetupConfig))
               @@ (OtherGuild :> SetupConfig)}
    /\ guild_configs = << >>
    /\ creating = [s \in CreateSlots |-> Idle]
    /\ message = Idle
    /\ closing = Idle
    /\ forcing = Idle
    /\ stale = Idle
    /\ inactive = Idle
    /\ claiming = [s \in ClaimSlots |-> Idle]
    /\ unclaiming = Idle
    /\ requesting = Idle
    /\ warnings = << >>
    /\ outcome = [op |-> "none", result |-> "none"]
    /\ SideIdle

\* Member 1 opens tickets in either community; /force-close is issued in community 1
\* by the customer or by the administrator, for any ticket id.
NextTwoGuilds ==
    \/ Tick
    \/ \E g \in {1, OtherGuild} : CreateCheck(1, g, 1)
    \/ CreateName(1)
    \/ CreateChannel(1)
    \/ CreateInsert(1)
    \/ \E u \in {1, 4}, id \in 1 .. MaxTickets : ForceSelect(u, 1, id)
    \/ ForceCommit
    \/ ForceFinish

SpecTwoGuilds == InitTwoGuilds /\ [][NextTwoGuilds]_vars

\* C37: force close issued in a community treats a ticket id of another community
\* as not found and writes only records of the community it was issued in.
C37_ForceCloseOwnCommunity ==
    [][/\ \A u \in Administrators, g \in {1, OtherGuild}, id \in DOMAIN tickets :
             (ForceSelect(u, g, id) /\ tickets[id].guild_id # g) =>
                 /\ outcome' = [op |-> "force_close", result |-> "NotFound"]
                 /\ UNCHANGED <<tickets, forcing>>
       /\ ForceCloseWrite =>
             \A i \in DOMAIN tickets :
                 tickets[i].guild_id # forcing.guild => tickets'[i] = tickets[i]]_vars

\* C36: the ticket number a creation computed for the channel name, the welcome
\* message and the confirmation is the ticket_id of the record it stores for its
\* channel.
C36_AnnouncedIdIsStoredId ==
    [][\A s \in CreateSlots :
          CreateStore(s) =>
              \A i \in DOMAIN tickets' :
                  (i \notin DOMAIN tickets /\ tickets'[i].channel_id = creating[s].channel) =>
                      i = creating[s].ticket_id]_vars

\* The staleness sweep, resumed after its sleep, finds the channel of the ticket it
\* closed deleted: channel.edit / channel.delete raises NotFound.
StalePlatformFailure ==
    /\ stale.pc = "sleep"
    /\ tickets[Head(stale.list)].channel_id \notin DOMAIN channels
    /\ stale' # stale

\* C33: a platform step that fails for one ticket during a staleness tick is
\* contained: the tick goes on with the remaining tickets and communities, and the
\* sweep is never left unable to tick again.
C33_SweepFailureContained ==
    [][StalePlatformFailure => stale' = Advance(stale)]_vars

\* ----------------------------------------------------- the off-hours notice
\* Hours of the day: dt.now().hour, and what WorkHoursModal accepts.
Hours == 0 .. 23

\* if current_hour < work_start or current_hour >= work_end: send the off-hours embed
off_hours(current_hour, work_start, work_end) ==
    current_hour < work_start \/ current_hour >= work_end

\* A creation that has stored its ticket, at any hour, with any stored working hours.
InitHours ==
    /\ Boot
    /\ writing = [w \in WriteSlots |-> Idle]
    /\ transcript = Idle
    /\ history = [c \in 1 .. MaxTickets |-> 0]
    /\ welcome \in [pc : {"created"}, current_hour : Hours,
                    work_start : Hours, work_end : Hours]

\* The welcome messages of create_ticket_channel, with or without the notice.
SendWelcome ==
    /\ welcome.pc = "created"
    /\ welcome' = [pc |-> "sent", current_hour |-> welcome.current_hour,
                   work_start |-> welcome.work_start, work_end |-> welcome.work_end,
                   off_hours |-> off_hours(welcome.current_hour, welcome.work_start,
                                           welcome.work_end)]
    /\ UNCHANGED <<now, tickets, channels, channel_seq, server_config, guild_configs,
                   creating, message, closing, forcing, stale, inactive, commands,
                   warnings, outcome, writing, transcript, history>>

NextHours == SendWelcome

SpecHours == InitHours /\ [][NextHours]_vars

\* The working-hours window from start (inclusive) to end (exclusive); it wraps past
\* midnight when start is greater than end.
InWindow(h, start, end) ==
    IF start <= end THEN start <= h /\ h < end
                    ELSE h >= start \/ h < end

\* C34: the welcome carries the off-hours notice exactly when the current hour lies
\* outside the working-hours window, for every pair of start and end hours.
C34_NoticeIffOutsideWindow ==
    welcome.pc = "sent" =>
        (welcome.off_hours <=>
            ~InWindow(welcome.current_hour, welcome.work_start, welcome.work_end))

\* ------------------------------------------------- generate_transcript_file
\* The header: three title lines, creator, creation time, the claimant if there is
\* one, status, reason, closing rule.
TranscriptHeader(ticket_info) ==
    <<"rule", "title", "rule", "created_by", "created_at">>
        \o (IF ticket_info.claimed_by # NULL THEN <<"claimed_by">> ELSE << >>)
        \o <<"status", "reason", "rule">>

\* The list `transcript` when the footer's count is computed: header, one line per
\* message of channel.history, the footer's rule and its generation time.
TranscriptBeforeTotal(ticket_info, n) ==
    TranscriptHeader(ticket_info) \o [i \in 1 .. n |-> "message"] \o <<"rule", "generated">>

\* f"Total messages: {len(transcript) - 10}"
TotalMessages(ticket_info, n) == Len(TranscriptBeforeTotal(ticket_info, n)) - 10

\* The lines written to the file.
TranscriptLines(ticket_info, n) ==
    TranscriptBeforeTotal(ticket_info, n) \o <<"total", "rule">>

\* A ticket of any creator, claimed by a staff member or by nobody, whose channel holds
\* up to MaxMessages messages.
InitTranscript ==
    /\ Boot
    /\ writing = [w \in WriteSlots |-> Idle]
    /\ welcome = Idle
    /\ history = [c \in 1 .. MaxTickets |-> 0]
    /\ transcript \in [pc : {"ticket"}, creator_id : Users,
                       claimed_by : {NULL, 2, 3}, messages : 0 .. MaxMessages]

GenerateTranscript ==
    /\ transcript.pc = "ticket"
    /\ transcript' = [pc |-> "written", creator_id |-> transcript.creator_id,
                      claimed_by |-> transcript.claimed_by,
                      messages |-> transcript.messages,
                      lines |-> TranscriptLines(transcript, transcript.messages),
                      total |-> TotalMessages(transcript, transcript.messages)]
    /\ UNCHANGED <<now, tickets, channels, channel_seq, server_config, guild_configs,
                   creating, message, closing, forcing, stale, inactive, commands,
                   warnings, outcome, writing, welcome, history>>

NextTranscript == GenerateTranscript

SpecTranscript == InitTranscript /\ [][NextTranscript]_vars

\* C39: the number in the footer's 'Total messages' line is the number of message
\* lines of the transcript, with and without a claimant.
C39_TotalIsMessageCount ==
    transcript.pc = "written" =>
        transcript.total =
            Cardinality({i \in DOMAIN transcript.lines : transcript.lines[i] = "message"})

\* ------------------------------------------- update_config, step by step
\* config = await self.get_config(guild_id) or {}: the stored row, read first.
UpdateRead(w, g, k, v) ==
    /\ writing[w].pc = "idle"
    /\ v \in ValidValues(k)
    /\ writing' = [writing EXCEPT ![w] =
           [pc |-> "read", guild |-> g, key |-> k, value |-> v,
            config |-> IF g \in DOMAIN server_config THEN server_config[g] ELSE << >>]]
    /\ UNCHANGED <<now, tickets, channels, channel_seq, server_config, guild_configs,
                   creating, message, closing, forcing, stale, inactive, commands,
                   warnings, outcome, welcome, transcript, history>>

\* config[key] = value; INSERT OR REPLACE INTO server_config (guild_id, config, ...)
UpdateStore(w) ==
    /\ writing[w].pc = "read"
    /\ server_config' = (writing[w].guild :>
                             ((writing[w].key :> writing[w].value) @@ writing[w].config))
                         @@ server_config
    /\ writing' = [writing EXCEPT ![w] = Idle]
    /\ outcome' = [op |-> "setup", result |-> "set"]
    /\ UNCHANGED <<now, tickets, channels, channel_seq, guild_configs,
                   creating, message, closing, forcing, stale, inactive, commands,
                   warnings, welcome, transcript, history>>

\* Two settings modals submitted at about the same time.
NextWrites ==
    \/ \E w \in WriteSlots, g \in Guilds :
          \E k \in {"max_tickets", "auto_close_minutes", "auto_close_days"} :
             \E v \in ValidValues(k) : UpdateRead(w, g, k, v)
    \/ \E w \in WriteSlots : UpdateStore(w)

SpecWrites == InitConfigured /\ [][NextWrites]_vars

\* A step of update_config that replaces the stored row.
ConfigStore(w) == writing[w].pc = "read" /\ writing'[w].pc = "idle"

\* C38: a configuration write stores its own key and leaves every other stored key
\* of the community at the value it had just before, whatever write ran beside it.
C38_ConcurrentWritesBothPersist ==
    [][\A w \in WriteSlots :
          ConfigStore(w) =>
              LET g == writing[w].guild
              IN  /\ server_config'[g][writing[w].key] = writing[w].value
                  /\ g \in DOMAIN server_config =>
                        \A k \in DOMAIN server_config[g] \ {writing[w].key} :
                            /\ k \in DOMAIN server_config'[g]
                            /\ server_config'[g][k] = server_config[g][k]]_vars

\* ------------------------------------------------ transcripts and the grace delay
\* A member's message lands in a ticket channel: it is in channel.history() from
\* then on, whatever on_message later does with it.
Post(ch) ==
    /\ ch \in DOMAIN channels
    /\ history[ch] < MaxMessages
    /\ history' = [history EXCEPT ![ch] = @ + 1]
    /\ UNCHANGED <<now, tickets, channels, channel_seq, server_config, guild_configs,
                   creating, message, closing, forcing, stale, inactive, commands,
                   warnings, outcome, writing, welcome, transcript>>

\* One open ticket; members write into its channel while staff closes it, the
\* administrator force closes it, or the staleness sweep closes it.
NextGrace ==
    \/ Tick
    \/ \E ch \in DOMAIN channels : Post(ch)
    \/ \E ch \in DOMAIN channels : CloseRead(2, ch)
    \/ CloseCommit
    \/ CloseFinish
    \/ CloseDelete
    \/ \E id \in 1 .. MaxTickets : ForceSelect(4, 1, id)
    \/ ForceCommit
    \/ ForceFinish
    \/ StaleStart
    \/ StaleSelect
    \/ StaleClose
    \/ StaleFinish

SpecGrace == InitTicketOpen /\ [][NextGrace]_vars

\* A close path deletes channel ch, having put n messages into the transcript.
Deletes(flow, ch, n) ==
    /\ flow.pc = "sleep"
    /\ ch \in DOMAIN channels /\ ch \notin DOMAIN channels'
    /\ n = flow.transcribed

\* C32: when a close path deletes a ticket's channel, the transcript it wrote holds
\* every message that landed in the channel, those of the grace delay included.
C32_TranscriptHoldsEveryMessage ==
    [][\A ch \in DOMAIN channels : \A n \in 0 .. MaxMessages :
          /\ (closing'.pc = "idle" /\ Deletes(closing, ch, n)) => n = history[ch]
          /\ (forcing'.pc = "idle" /\ Deletes(forcing, ch, n)) => n = history[ch]
          /\ (stale' # stale /\ Deletes(stale, ch, n)) => n = history[ch]]_vars

\* ------------------------------------------- sweeps while communities are loaded
\* Two configured communities; a member of either opens the settings view or a
\* ticket, which loads the community into guild_configs, while the sweeps tick.
NextLoad ==
    \/ Tick
    \/ \E g \in {1, OtherGuild} : ViewSettings(g)
    \/ \E g \in {1, OtherGuild} : CreateCheck(1, g, 1)
    \/ CreateName(1)
    \/ CreateChannel(1)
    \/ CreateInsert(1)
    \/ StaleStart
    \/ StaleSelect
    \/ StaleClose
    \/ StaleFinish
    \/ InactiveStart
    \/ InactiveSelect
    \/ InactiveWarn
    \/ InactiveMark

SpecLoad == InitTwoGuilds /\ [][NextLoad]_vars

\* The sweep comes back for its next community after the map of loaded communities
\* has grown since the tick started.
ResumesAfterLoad(loop) ==
    /\ loop.pc = "guilds"
    /\ Cardinality(loop.todo) # loop.used
    /\ Cardinality(DOMAIN guild_configs) > loop.used
    /\ loop' # loop

\* C35: a sweep tick that was suspended while another operation loaded a new
\* community goes on over the communities loaded at its start or ends normally, and
\* the periodic task stays able to tick.
C35_SweepSurvivesLoad ==
    [][/\ ResumesAfterLoad(stale) => stale'.pc \in {"guilds", "tickets", "idle"}
       /\ ResumesAfterLoad(inactive) => inactive'.pc \in {"guilds", "tickets", "idle"}]_vars
====
